---- MODULE Spec2Model ----
(***************************************************************************)
(* Model of topological_sort.py: the DirectedGraph class, random_dag,      *)
(* is_topological_sort, kahns_algo / topological_sort and the __main__     *)
(* stress driver.                                                          *)
(*                                                                         *)
(* Three specifications share the variables:                               *)
(*   Spec          a caller builds a graph with add_edge, then sorts it    *)
(*   SpecValidate  a caller builds a graph, then calls is_topological_sort *)
(*   SpecDriver    the __main__ loop                                       *)
(***************************************************************************)
EXTENDS Integers, Sequences, FiniteSets, TLC

\* ---------------------------------------------------------------- bounds
\* Node values a caller passes to add_edge are 0 .. NumNodes-1.
NumNodes == 3
\* A caller adds at most MaxEdges edges (rejected calls are not counted).
MaxEdges == 3
\* Longest candidate sequence handed to is_topological_sort.
MaxSeqLen == 3
\* Stands for N_MAX of the driver (1000 in the source, line 150).
N_MAX == 3

Nodes == 0 .. (NumNodes - 1)

\* The two messages the code raises Exception with.
DuplicateEdge == "Graph already contains edge."
CycleDetected == "Graph contains a cycle"
NoException == "none"

VARIABLES
    graph,       \* the DirectedGraph object: edges, successors, predecessors, nodes
    pc,          \* position of the caller
    call,        \* arguments of the caller's last add_edge call, <<>> if none
    exc,         \* exception raised by the last call, NoException if it returned
    kpc,         \* position inside kahns_algo
    degrees,     \* kahns_algo local
    zero_nodes,  \* kahns_algo local
    top_sort,    \* kahns_algo local, the value returned
    cand,        \* sequence handed to is_topological_sort
    valid,       \* value is_topological_sort returned
    n,           \* driver: n
    rd_u,        \* random_dag: loop variable u
    rd_v,        \* random_dag: loop variable v
    start,       \* driver: start
    end,         \* driver: end
    i            \* driver: loop variable i

vars == <<graph, pc, call, exc, kpc, degrees, zero_nodes, top_sort,
          cand, valid, n, rd_u, rd_v, start, end, i>>

kahnVars == <<kpc, degrees, zero_nodes, top_sort>>
validateVars == <<cand, valid>>
driverVars == <<n, rd_u, rd_v, start, end, i>>

\* ---------------------------------------------------------------- helpers
Range(s) == {s[k] : k \in 1 .. Len(s)}

\* Python's `x in list`.
Contains(s, x) == x \in Range(s)

Count(s, x) == Cardinality({k \in 1 .. Len(s) : s[k] = x})

\* Python dict with no keys.
EmptyDict == [x \in {} |-> <<>>]

\* ---------------------------------------------------------------- DirectedGraph
NewGraph ==
    [edges |-> <<>>, successors |-> EmptyDict, predecessors |-> EmptyDict, nodes |-> {}]

get_successors(g, u) ==
    IF u \in DOMAIN g.successors THEN g.successors[u] ELSE <<>>

get_predecessors(g, u) ==
    IF u \in DOMAIN g.predecessors THEN g.predecessors[u] ELSE <<>>

get_nodes(g) == g.nodes

get_edges(g) == g.edges

\* add_edge with the duplicate test left out.
add_edge_unchecked(g, u, v) ==
    LET s1 == IF u \in DOMAIN g.successors THEN g.successors
              ELSE g.successors @@ (u :> <<>>)
        p1 == IF v \in DOMAIN g.predecessors THEN g.predecessors
              ELSE g.predecessors @@ (v :> <<>>)
    IN  [raised |-> FALSE,
         graph  |-> [edges        |-> Append(g.edges, <<u, v>>),
                     successors   |-> [s1 EXCEPT ![u] = Append(@, v)],
                     predecessors |-> [p1 EXCEPT ![v] = Append(@, u)],
                     nodes        |-> g.nodes \cup {u, v}]]

\* add_edge that forgets nodes.add(v).
add_edge_forget_v(g, u, v) ==
    LET s1 == IF u \in DOMAIN g.successors THEN g.successors
              ELSE g.successors @@ (u :> <<>>)
        p1 == IF v \in DOMAIN g.predecessors THEN g.predecessors
              ELSE g.predecessors @@ (v :> <<>>)
    IN  IF Contains(s1[u], v)
        THEN [raised |-> TRUE,
              graph  |-> [g EXCEPT !.successors = s1, !.predecessors = p1]]
        ELSE [raised |-> FALSE,
              graph  |-> [edges        |-> Append(g.edges, <<u, v>>),
                          successors   |-> [s1 EXCEPT ![u] = Append(@, v)],
                          predecessors |-> [p1 EXCEPT ![v] = Append(@, u)],
                          nodes        |-> g.nodes \cup {u}]]

\* add_edge that appends u to predecessors[v] only when the list is empty.
add_edge_pred_once(g, u, v) ==
    LET s1 == IF u \in DOMAIN g.successors THEN g.successors
              ELSE g.successors @@ (u :> <<>>)
        p1 == IF v \in DOMAIN g.predecessors THEN g.predecessors
              ELSE g.predecessors @@ (v :> <<>>)
    IN  IF Contains(s1[u], v)
        THEN [raised |-> TRUE,
              graph  |-> [g EXCEPT !.successors = s1, !.predecessors = p1]]
        ELSE [raised |-> FALSE,
              graph  |-> [edges        |-> Append(g.edges, <<u, v>>),
                          successors   |-> [s1 EXCEPT ![u] = Append(@, v)],
                          predecessors |-> [p1 EXCEPT ![v] =
                                               IF @ = <<>> THEN Append(@, u) ELSE @],
                          nodes        |-> g.nodes \cup {u, v}]]

\* add_edge whose duplicate test also looks at the reverse direction.
add_edge_undirected_test(g, u, v) ==
    LET s1 == IF u \in DOMAIN g.successors THEN g.successors
              ELSE g.successors @@ (u :> <<>>)
        p1 == IF v \in DOMAIN g.predecessors THEN g.predecessors
              ELSE g.predecessors @@ (v :> <<>>)
    IN  IF Contains(s1[u], v) \/ Contains(get_predecessors(g, u), v)
        THEN [raised |-> TRUE,
              graph  |-> [g EXCEPT !.successors = s1, !.predecessors = p1]]
        ELSE [raised |-> FALSE,
              graph  |-> [edges        |-> Append(g.edges, <<u, v>>),
                          successors   |-> [s1 EXCEPT ![u] = Append(@, v)],
                          predecessors |-> [p1 EXCEPT ![v] = Append(@, u)],
                          nodes        |-> g.nodes \cup {u, v}]]

\* DirectedGraph.add_edge(u, v) on graph g: the graph after the call and
\* whether the call raised.  The two setdefault-like assignments come before
\* the duplicate test, so they are kept when the call raises.
add_edge(g, u, v) ==
    LET s1 == IF u \in DOMAIN g.successors THEN g.successors
              ELSE g.successors @@ (u :> <<>>)
        p1 == IF v \in DOMAIN g.predecessors THEN g.predecessors
              ELSE g.predecessors @@ (v :> <<>>)
    IN  IF Contains(s1[u], v)
        THEN [raised |-> TRUE,
              graph  |-> [g EXCEPT !.successors = s1, !.predecessors = p1]]
        ELSE [raised |-> FALSE,
              graph  |-> [edges        |-> Append(g.edges, <<u, v>>),
                          successors   |-> [s1 EXCEPT ![u] = Append(@, v)],
                          predecessors |-> [p1 EXCEPT ![v] = Append(@, u)],
                          nodes        |-> g.nodes \cup {u, v}]]

\* ---------------------------------------------------------------- is_topological_sort
\* {v: i for (i, v) in enumerate(sequence)}: a later occurrence of v
\* overwrites an earlier one, and enumerate counts from 0.
IndexOf(sequence) ==
    [x \in Range(sequence) |->
        (CHOOSE k \in 1 .. Len(sequence) :
            sequence[k] = x /\ \A j \in (k + 1) .. Len(sequence) : sequence[j] # x) - 1]

is_topological_sort(g, sequence) ==
    IF Range(sequence) # get_nodes(g)
    THEN FALSE
    ELSE LET index == IndexOf(sequence)
         IN  \A e \in Range(get_edges(g)) : index[e[1]] < index[e[2]]

\* ---------------------------------------------------------------- kahns_algo
\* The orders in which `for u in graph.get_nodes()` may visit the set.
SetOrders(S) ==
    {s \in [1 .. Cardinality(S) -> S] :
        \A a, b \in 1 .. Cardinality(S) : a # b => s[a] # s[b]}

\* The first for loop with the seed test written `len(pred) <= 1`.
RECURSIVE InitDegreesSeedOne(_, _, _, _)
InitDegreesSeedOne(g, order, deg, zn) ==
    IF order = <<>>
    THEN [degrees |-> deg, zero_nodes |-> zn]
    ELSE LET u    == Head(order)
             pred == get_predecessors(g, u)
         IN  InitDegreesSeedOne(g, Tail(order), deg @@ (u :> Len(pred)),
                                IF Len(pred) <= 1 THEN Append(zn, u) ELSE zn)

\* The first for loop, over the nodes in the order given.
RECURSIVE InitDegrees(_, _, _, _)
InitDegrees(g, order, deg, zn) ==
    IF order = <<>>
    THEN [degrees |-> deg, zero_nodes |-> zn]
    ELSE LET u    == Head(order)
             pred == get_predecessors(g, u)
         IN  InitDegrees(g, Tail(order), deg @@ (u :> Len(pred)),
                         IF Len(pred) = 0 THEN Append(zn, u) ELSE zn)

\* The inner for loop over the successors vs of the node just popped.
RECURSIVE Relax(_, _, _)
Relax(vs, deg, zn) ==
    IF vs = <<>>
    THEN [degrees |-> deg, zero_nodes |-> zn]
    ELSE LET v == Head(vs)
             d == [deg EXCEPT ![v] = @ - 1]
         IN  Relax(Tail(vs), d, IF d[v] = 0 THEN Append(zn, v) ELSE zn)

\* The final test written with <= .
IncompleteOrEqual(ts, g) == Len(ts) <= Cardinality(get_nodes(g))

\* The final test comparing against one node less.
IncompleteByTwo(ts, g) == Len(ts) < Cardinality(get_nodes(g)) - 1

\* len(top_sort) < len(graph.get_nodes())
Incomplete(ts, g) == Len(ts) < Cardinality(get_nodes(g))

\* topological_sort(graph) is called: kahns_algo starts with fresh locals.
EnterKahn ==
    /\ kpc' = "init"
    /\ degrees' = EmptyDict
    /\ zero_nodes' = <<>>
    /\ top_sort' = <<>>

\* for u in graph.get_nodes(): ...
KahnInit ==
    /\ kpc = "init"
    /\ \E order \in SetOrders(get_nodes(graph)) :
          LET r == InitDegrees(graph, order, EmptyDict, <<>>)
          IN  /\ degrees' = r.degrees
              /\ zero_nodes' = r.zero_nodes
    /\ kpc' = "while"
    /\ UNCHANGED <<graph, pc, call, exc, top_sort, validateVars, driverVars>>

\* One iteration of `while len(zero_nodes) > 0`.
KahnPop ==
    /\ kpc = "while"
    /\ Len(zero_nodes) > 0
    /\ LET u == zero_nodes[Len(zero_nodes)]
           r == Relax(get_successors(graph, u), degrees,
                      SubSeq(zero_nodes, 1, Len(zero_nodes) - 1))
       IN  /\ top_sort' = Append(top_sort, u)
           /\ degrees' = r.degrees
           /\ zero_nodes' = r.zero_nodes
    /\ UNCHANGED <<graph, pc, call, exc, kpc, validateVars, driverVars>>

\* The loop is left: raise or return top_sort.
KahnExit ==
    /\ kpc = "while"
    /\ Len(zero_nodes) = 0
    /\ IF Incomplete(top_sort, graph)
       THEN kpc' = "raised" /\ exc' = CycleDetected
       ELSE kpc' = "returned" /\ exc' = NoException
    /\ UNCHANGED <<graph, pc, call, degrees, zero_nodes, top_sort,
                   validateVars, driverVars>>

KahnNext == KahnInit \/ KahnPop \/ KahnExit

\* ---------------------------------------------------------------- a caller
\* The caller calls graph.add_edge(u, v).
AddEdgeCall ==
    /\ pc = "build"
    /\ \E u, v \in Nodes :
          LET r == add_edge(graph, u, v)
          IN  /\ r.raised \/ Len(graph.edges) < MaxEdges
              /\ graph' = r.graph
              /\ exc' = IF r.raised THEN DuplicateEdge ELSE NoException
              /\ call' = <<u, v>>
    /\ UNCHANGED <<pc, kahnVars, validateVars, driverVars>>

\* The caller calls topological_sort(graph).
SortCall ==
    /\ pc = "build"
    /\ pc' = "sort"
    /\ call' = <<>>
    /\ exc' = NoException
    /\ EnterKahn
    /\ UNCHANGED <<graph, validateVars, driverVars>>

\* The caller calls is_topological_sort(graph, sequence).
ValidateCall ==
    /\ pc = "build"
    /\ \E len \in 0 .. MaxSeqLen :
          \E sequence \in [1 .. len -> Nodes] :
              /\ cand' = sequence
              /\ valid' = is_topological_sort(graph, sequence)
    /\ pc' = "validated"
    /\ call' = <<>>
    /\ exc' = NoException
    /\ UNCHANGED <<graph, kahnVars, driverVars>>

Init ==
    /\ graph = NewGraph
    /\ pc = "build"
    /\ call = <<>>
    /\ exc = NoException
    /\ kpc = "idle"
    /\ degrees = EmptyDict
    /\ zero_nodes = <<>>
    /\ top_sort = <<>>
    /\ cand = <<>>
    /\ valid = FALSE
    /\ n = 0
    /\ rd_u = 0
    /\ rd_v = 0
    /\ start = 0
    /\ end = 0
    /\ i = 0

Next == AddEdgeCall \/ SortCall \/ KahnInit \/ KahnPop \/ KahnExit

Spec == Init /\ [][Next]_vars

NextValidate == AddEdgeCall \/ ValidateCall

SpecValidate == Init /\ [][NextValidate]_vars

\* ---------------------------------------------------------------- random_dag
\* range(u+1, n_nodes) written as range(u, n_nodes).
InnerStartAtU(u) == u

\* First value of v in `for v in range(u+1, n_nodes)`.
InnerStart(u) == u + 1

\* while True: n = randint(0, N_MAX); random_dag(n, ...) is entered:
\* dag = DirectedGraph() and the outer loop starts at u = 0.
DriverBegin ==
    /\ pc = "main"
    /\ \E nn \in 0 .. N_MAX : n' = nn
    /\ graph' = NewGraph
    /\ rd_u' = 0
    /\ rd_v' = InnerStart(0)
    /\ pc' = "random_dag"
    /\ UNCHANGED <<call, exc, kahnVars, validateVars, start, end, i>>

\* One iteration of the inner loop: the draw random() > edge_threshold
\* either adds the edge (u, v) or not.  An exception of add_edge is not
\* caught by random_dag nor by the driver.
RandomDagInner ==
    /\ pc = "random_dag"
    /\ rd_u < n
    /\ rd_v < n
    /\ \E take \in BOOLEAN :
          IF take
          THEN LET r == add_edge(graph, rd_u, rd_v)
               IN  /\ graph' = r.graph
                   /\ call' = <<rd_u, rd_v>>
                   /\ IF r.raised
                      THEN exc' = DuplicateEdge /\ pc' = "crashed" /\ rd_v' = rd_v
                      ELSE exc' = NoException /\ pc' = pc /\ rd_v' = rd_v + 1
          ELSE /\ rd_v' = rd_v + 1
               /\ UNCHANGED <<graph, call, exc, pc>>
    /\ UNCHANGED <<kahnVars, validateVars, n, rd_u, start, end, i>>

\* The inner loop is exhausted: next u of the outer loop.
RandomDagOuter ==
    /\ pc = "random_dag"
    /\ rd_u < n
    /\ rd_v >= n
    /\ rd_u' = rd_u + 1
    /\ rd_v' = InnerStart(rd_u + 1)
    /\ UNCHANGED <<graph, pc, call, exc, kahnVars, validateVars, n, start, end, i>>

\* return dag; the driver calls topological_sort(graph).
RandomDagReturn ==
    /\ pc = "random_dag"
    /\ rd_u >= n
    /\ pc' = "sort1"
    /\ call' = <<>>
    /\ exc' = NoException
    /\ EnterKahn
    /\ UNCHANGED <<graph, validateVars, driverVars>>

\* ---------------------------------------------------------------- __main__
\* The first topological_sort is over: an exception ends the program, then
\* assert is_topological_sort(graph, top_sort), then start and end are drawn.
DriverAssert ==
    /\ pc = "sort1"
    /\ kpc \in {"returned", "raised"}
    /\ IF kpc = "raised"
       THEN pc' = "crashed" /\ UNCHANGED <<start, end, i>>
       ELSE IF ~ is_topological_sort(graph, top_sort)
            THEN pc' = "assert_failed" /\ UNCHANGED <<start, end, i>>
            ELSE \E s \in 0 .. (N_MAX - 1) :
                    \E e \in (s + 1) .. N_MAX :
                        /\ start' = s
                        /\ end' = e
                        /\ i' = s
                        /\ pc' = "inject"
    /\ UNCHANGED <<graph, call, exc, kahnVars, validateVars, n, rd_u, rd_v>>

\* for i in range(start, end): try: graph.add_edge(i, i+1) except: pass
InjectStep ==
    /\ pc = "inject"
    /\ i < end
    /\ LET r == add_edge(graph, i, i + 1)
       IN  /\ graph' = r.graph
           /\ call' = <<i, i + 1>>
           /\ exc' = IF r.raised THEN DuplicateEdge ELSE NoException
    /\ i' = i + 1
    /\ UNCHANGED <<pc, kahnVars, validateVars, n, rd_u, rd_v, start, end>>

\* try: graph.add_edge(end, start) except: pass; then the second
\* topological_sort(graph) is called.
InjectClose ==
    /\ pc = "inject"
    /\ i >= end
    /\ LET r == add_edge(graph, end, start)
       IN  /\ graph' = r.graph
           /\ call' = <<end, start>>
           /\ exc' = IF r.raised THEN DuplicateEdge ELSE NoException
    /\ pc' = "sort2"
    /\ EnterKahn
    /\ UNCHANGED <<validateVars, driverVars>>

\* The second topological_sort is over.  The bare except catches the cycle
\* exception and also the AssertionError of `assert False`, so the loop goes
\* on either way.  The driver's own variables keep their values until the
\* next iteration assigns them.
DriverLoop ==
    /\ pc = "sort2"
    /\ kpc \in {"returned", "raised"}
    /\ pc' = "main"
    /\ call' = <<>>
    /\ exc' = NoException
    /\ kpc' = "idle"
    /\ degrees' = EmptyDict
    /\ zero_nodes' = <<>>
    /\ top_sort' = <<>>
    /\ UNCHANGED <<graph, validateVars, driverVars>>

InitDriver ==
    /\ graph = NewGraph
    /\ pc = "main"
    /\ call = <<>>
    /\ exc = NoException
    /\ kpc = "idle"
    /\ degrees = EmptyDict
    /\ zero_nodes = <<>>
    /\ top_sort = <<>>
    /\ cand = <<>>
    /\ valid = FALSE
    /\ n = 0
    /\ rd_u = 0
    /\ rd_v = 0
    /\ start = 0
    /\ end = 0
    /\ i = 0

NextDriver ==
    \/ DriverBegin \/ RandomDagInner \/ RandomDagOuter \/ RandomDagReturn
    \/ KahnInit \/ KahnPop \/ KahnExit
    \/ DriverAssert \/ InjectStep \/ InjectClose \/ DriverLoop

SpecDriver == InitDriver /\ [][NextDriver]_vars

\* ---------------------------------------------------------------- properties
\* Endpoints of the edges of g.
Endpoints(g) == UNION {{e[1], e[2]} : e \in Range(g.edges)}

\* g has a directed cycle: some non-empty set of nodes in which every node
\* has an edge to a node of the set.
HasCycle(g) ==
    \E S \in SUBSET Endpoints(g) :
        /\ S # {}
        /\ \A x \in S : \E e \in Range(g.edges) : e[1] = x /\ e[2] \in S

\* S is a topological order of g: every node exactly once, nothing else,
\* and every edge goes from an earlier to a later position.
IsTopologicalOrder(g, S) ==
    /\ Len(S) = Cardinality(g.nodes)
    /\ Range(S) = g.nodes
    /\ \A e \in Range(g.edges) :
          \E a, b \in 1 .. Len(S) : a < b /\ S[a] = e[1] /\ S[b] = e[2]

\* The nodes of S in increasing order.
Increasing(S) ==
    CHOOSE s \in SetOrders(S) : \A a, b \in 1 .. Len(s) : a < b => s[a] < s[b]

\* C1: whenever topological_sort returns a sequence, the sequence holds every
\* node of the graph exactly once and nothing else, every edge (u, v) has u
\* strictly before v, and is_topological_sort accepts it.
C1_SortedOrderValid ==
    (pc = "sort" /\ kpc = "returned") =>
        /\ \A x \in graph.nodes : Count(top_sort, x) = 1
        /\ Range(top_sort) \subseteq graph.nodes
        /\ \A e \in Range(graph.edges) :
              \E a, b \in 1 .. Len(top_sort) :
                  a < b /\ top_sort[a] = e[1] /\ top_sort[b] = e[2]
        /\ is_topological_sort(graph, top_sort)

C1_Witness ==
    /\ pc = "sort" /\ kpc = "returned"
    /\ Cardinality(graph.nodes) = 3
    /\ Len(graph.edges) = 3

\* Steps kahns_algo still has to take at most: one for the first loop, one
\* for every node not yet in top_sort, one for the final test.
KahnMeasure ==
    IF kpc = "init" THEN Cardinality(graph.nodes) + 2
    ELSE IF kpc = "while" THEN Cardinality(graph.nodes) - Len(top_sort) + 1
    ELSE 0

\* C2: on a graph with a directed cycle topological_sort never returns a
\* sequence, not even a partial one: while it runs it can always take a
\* step, every step brings it closer to its end, and it ends by raising the
\* cycle error.
C2_CyclicRaises ==
    /\ [](pc = "sort" /\ HasCycle(graph) =>
             /\ kpc # "returned"
             /\ kpc = "raised" => exc = CycleDetected
             /\ kpc \in {"init", "while"} => ENABLED KahnNext
             /\ KahnMeasure >= 0)
    /\ [][pc = "sort" /\ HasCycle(graph) => KahnMeasure' < KahnMeasure]_vars

C2_Witness ==
    /\ pc = "sort" /\ kpc = "raised"
    /\ HasCycle(graph)
    /\ Len(top_sort) > 0
    /\ \E x \in graph.nodes : <<x, x>> \in Range(graph.edges)

\* C3: on a graph without a directed cycle (the empty graph included)
\* topological_sort never raises: while it runs it can always take a step,
\* every step brings it closer to its end, and it ends by returning.
C3_AcyclicReturns ==
    /\ [](pc = "sort" /\ ~ HasCycle(graph) =>
             /\ kpc # "raised"
             /\ kpc = "returned" => exc = NoException
             /\ kpc \in {"init", "while"} => ENABLED KahnNext
             /\ KahnMeasure >= 0)
    /\ [][pc = "sort" /\ ~ HasCycle(graph) => KahnMeasure' < KahnMeasure]_vars

C3_Witness ==
    /\ pc = "sort" /\ kpc = "returned"
    /\ ~ HasCycle(graph)
    /\ Len(graph.edges) >= 2
    /\ exc = NoException

\* C4: is_topological_sort(G, S) is true exactly when S is a topological
\* order of G (every node once, no extra element, no duplicate, every edge
\* forward).
C4_ValidatorExact ==
    pc = "validated" => (valid <=> IsTopologicalOrder(graph, cand))

\* C5: add_edge(u, v) with (u, v) already present raises and leaves the
\* whole graph state as it was; with (u, v) absent it succeeds and appends
\* the edge, also when (v, u) is present.
C5_DuplicateRejected ==
    [][\A u, v \in Nodes :
          (pc = "build" /\ pc' = "build" /\ call' = <<u, v>>) =>
              IF <<u, v>> \in Range(graph.edges)
              THEN exc' = DuplicateEdge /\ graph' = graph
              ELSE exc' = NoException /\ graph'.edges = Append(graph.edges, <<u, v>>)
      ]_vars

C5_Witness ==
    /\ pc = "build"
    /\ exc = DuplicateEdge
    /\ Len(call) = 2
    /\ call[1] # call[2]
    /\ call \in Range(graph.edges)
    /\ <<call[2], call[1]>> \in Range(graph.edges)

\* C6: for every edge (u, v) of the edge sequence, v is exactly once in
\* successors[u] and u exactly once in predecessors[v], and no pair is twice
\* in the edge sequence.
C6_AdjacencyConsistent ==
    \A e \in Range(graph.edges) :
        /\ Count(get_successors(graph, e[1]), e[2]) = 1
        /\ Count(get_predecessors(graph, e[2]), e[1]) = 1
        /\ Count(graph.edges, e) = 1

C6_Witness ==
    /\ exc = DuplicateEdge
    /\ Len(graph.edges) >= 3
    /\ \E x \in Nodes : <<x, x>> \in Range(graph.edges)
    /\ \E x \in Nodes : Len(get_predecessors(graph, x)) >= 2

\* C7: the node set is exactly the set of endpoints of the edges.
C7_NodesAreEndpoints ==
    get_nodes(graph) = Endpoints(graph)

C7_Witness ==
    /\ exc = DuplicateEdge
    /\ Len(get_edges(graph)) >= 2
    /\ Cardinality(get_nodes(graph)) = 3

\* C8: random_dag never fails with a duplicate edge; every edge (u, v) of its
\* graph has u < v, the graph has no cycle, the increasing order of its
\* nodes is a topological order, and topological_sort on it returns.
C8_RandomDagAcyclic ==
    /\ pc # "crashed"
    /\ pc = "random_dag" => exc # DuplicateEdge
    /\ pc \in {"random_dag", "sort1"} =>
          /\ \A e \in Range(graph.edges) : e[1] < e[2]
          /\ ~ HasCycle(graph)
          /\ IsTopologicalOrder(graph, Increasing(graph.nodes))
    /\ pc = "sort1" => kpc # "raised"

C8_Witness ==
    /\ pc = "sort1" /\ kpc = "returned"
    /\ n = 3
    /\ Len(graph.edges) = 3

\* C9: the graph random_dag(n_nodes) returns has the node set
\* {0, ..., n_nodes-1}.
C9_RandomDagAllNodes ==
    (pc = "sort1" /\ kpc = "init") => get_nodes(graph) = 0 .. (n - 1)

\* C10: after the driver's cycle injection the graph holds the path
\* start -> ... -> end and the edge end -> start, the closing add_edge was
\* not rejected, and the second topological_sort does not return.
C10_InjectedCycleDetected ==
    pc = "sort2" =>
        /\ \A j \in start .. (end - 1) : <<j, j + 1>> \in Range(graph.edges)
        /\ <<end, start>> \in Range(graph.edges)
        /\ kpc \in {"init", "while"} => exc = NoException
        /\ HasCycle(graph)
        /\ kpc # "returned"

C10_Witness ==
    /\ pc = "sort2" /\ kpc = "raised"
    /\ end - start >= 2
    /\ n = 3
    /\ Len(graph.edges) = 4

====
